---- MODULE Spec2Model ----
(***************************************************************************)
(* Bit interleaving and de-interleaving of voxel-io (src/src/ileave.hpp).  *)
(*                                                                         *)
(* A machine word is modelled as the set of the positions of its 1-bits:   *)
(* a uint64_t is a subset of 0..63, a uint32_t a subset of 0..31.  Bitwise *)
(* OR is union, bitwise AND is intersection, and a shift moves every       *)
(* position and drops the ones that leave the word.  The functions of the  *)
(* header are pure; the state machine below is a caller that invokes them  *)
(* on arguments drawn from bounded input sets and keeps what they return.  *)
(***************************************************************************)
EXTENDS Integers, FiniteSets, Sequences, TLC

VARIABLES
    fn,      \* the function that was called last ("idle" before any call)
    param,   \* its stride (BITS) or lane count (COUNT / count)
    args,    \* its word arguments, in order
    ret,     \* the words it returned / wrote to out[]
    origin,  \* the arguments of the forward call whose result is now in args
    status,  \* "idle", "running", "returned", "assert_failed" or "undefined"
    build,   \* "debug" (VXIO_DEBUG_ASSERT_* active) or "release"
    n,       \* loop state of the doubling recurrence: the word being built
    i,       \* loop state: the loop index
    rounds,  \* loop state: shift-and-mask rounds executed so far
    maskIdx  \* loop state: the MASKS index used by the last round (-1: none)

vars == <<fn, param, args, ret, origin, status, build, n, i, rounds, maskIdx>>

(***************************************************************************)
(* Words                                                                   *)
(***************************************************************************)
U64 == 0..63
U32 == 0..31

\* value << s on a uint64_t, for 0 <= s < 64
Shl(w, s) == {b + s : b \in w} \cap U64

\* value >> s on a uint64_t, for 0 <= s < 64
Shr(w, s) == {b - s : b \in {c \in w : c >= s}}

\* static_cast<uint32_t>(value)
ToU32(w) == w \cap U32

\* ~uint32_t(0)
AllOnes32 == U32

\* a hexadecimal literal, given by its digits from the most significant one
FromHex(d) ==
    {4 * (Len(d) - k) + b : k \in 1..Len(d), b \in 0..3} \cap
    UNION {{4 * (Len(d) - k) + b : b \in {c \in 0..3 : (d[k] \div (2^c)) % 2 = 1}} : k \in 1..Len(d)}

Min(a, b) == IF a < b THEN a ELSE b

\* voxelio::divCeil<size_t>(a, b)
divCeil(a, b) == (a + b - 1) \div b

\* voxelio::log2floor(v), with log2floor(0) == 0
RECURSIVE log2floor(_)
log2floor(v) == IF v <= 1 THEN 0 ELSE 1 + log2floor(v \div 2)

(***************************************************************************)
(* Bounds and input sets                                                   *)
(***************************************************************************)
\* sparse inputs carry at most this many 1-bits
MaxSetBits == 2

\* sparse coordinates (arguments of ileave2 and ileave3) carry at most this
\* many 1-bits
MaxCoordBits == 1

\* strides BITS of the zero-bit interleaver family
Strides == 0..32

RECURSIVE Sparse(_, _)
Sparse(U, k) ==
    IF k = 0 THEN {{}}
    ELSE LET S == Sparse(U, k - 1) IN S \cup {s \cup {b} : s \in S, b \in U}

\* 0, all ones, 0xAAAA..., 0x5555... and their low and high parts
Corpus(U) == {{}, U, {b \in U : b % 2 = 1}, {b \in U : b % 2 = 0}}
Parts(U) ==
    {c \cap (0..k) : c \in Corpus(U), k \in U} \cup {c \ (0..k) : c \in Corpus(U), k \in U}

Inputs32 == Sparse(U32, MaxSetBits) \cup Parts(U32)
Inputs64 == Sparse(U64, MaxSetBits) \cup Parts(U64)
CoordInputs == Sparse(U32, MaxCoordBits) \cup Parts(U32)

(***************************************************************************)
(* Zero-bit interleaving                                                   *)
(***************************************************************************)
\* The loop runs lim times; iteration k reads bit 0 of the input shifted right
\* k times and ORs it into the result at b_out = k * (bits + 1).
ileaveZeros_naive(input, bits) ==
    LET lim == Min(32, divCeil(64, bits + 1))
    IN  UNION {Shl(Shr(ToU32(input), k) \cap {0}, k * (bits + 1)) : k \in 0..(lim - 1)}

\* Outer iteration k writes bit k of the input out_bits_per_in_bits times, at
\* b_out = k * out_bits_per_in_bits + j for j = 0 .. out_bits_per_in_bits - 1.
duplBits_naive(input, out_bits_per_in_bits) ==
    IF out_bits_per_in_bits = 0 THEN {}
    ELSE LET lim == divCeil(64, out_bits_per_in_bits)
         IN  UNION {UNION {Shl(Shr(input, k) \cap {0}, k * out_bits_per_in_bits + j) :
                             j \in 0..(out_bits_per_in_bits - 1)} :
                      k \in 0..(lim - 1)}

\* the constexpr MASKS[] tables, one per stride; entries 0..4 are the table of
\* ileaveZeros_const<BITS>, entries 0..5 the table of remIleavedBits_const<BITS>
MASKS ==
    [B \in Strides |->
        [k \in 0..5 |-> duplBits_naive(ileaveZeros_naive(AllOnes32, B), 2^k)]]

\* variant: the loop starts one doubling step too low
ileaveZeros_start_short(BITS) == 3 - log2floor(BITS \div 2)

\* variant: the loop starts one doubling step too high
ileaveZeros_start_long(BITS) == 5 - log2floor(BITS \div 2)

ileaveZeros_start(BITS) == 4 - log2floor(BITS \div 2)

\* one round of the loop body: n |= n << shift; n &= MASKS[i]
ileaveZeros_round(BITS, w, k) ==
    LET shift == BITS * (2^k)
    IN  (w \cup Shl(w, shift)) \cap MASKS[BITS][k]

RECURSIVE ileaveZeros_loop(_, _, _)
ileaveZeros_loop(BITS, w, k) ==
    IF k = -1 THEN w
    ELSE ileaveZeros_loop(BITS, ileaveZeros_round(BITS, w, k), k - 1)

ileaveZeros_const(BITS, input) ==
    IF BITS = 0 THEN ToU32(input)
    ELSE ileaveZeros_loop(BITS, ToU32(input), ileaveZeros_start(BITS))

(***************************************************************************)
(* Bitwise de-interleaving                                                 *)
(***************************************************************************)
\* Iteration k (0..63) reads bit 0 of the input shifted right k times; when k is
\* a multiple of the incremented bits it is ORed in at b_out, the number of
\* multiples seen before, and b_out is incremented.
remIleavedBits_naive(input, bits) ==
    LET inc == bits + 1
    IN  UNION {Shl(Shr(input, k) \cap {0}, k \div inc) : k \in {m \in 0..63 : m % inc = 0}}

remIleavedBits_iterations(BITS) == 5 - log2floor(BITS \div 2)

\* variant: the round masks with MASKS[i] instead of MASKS[i + 1]
remIleavedBits_round_sameMask(BITS, w, k) ==
    LET rshift == (2^k) * BITS
    IN  (w \cup Shr(w, rshift)) \cap MASKS[BITS][k]

\* one round of the loop body: input |= input >> rshift; input &= MASKS[i + 1]
remIleavedBits_round(BITS, w, k) ==
    LET rshift == (2^k) * BITS
    IN  (w \cup Shr(w, rshift)) \cap MASKS[BITS][k + 1]

RECURSIVE remIleavedBits_loop(_, _, _)
remIleavedBits_loop(BITS, w, k) ==
    IF k >= remIleavedBits_iterations(BITS) THEN w
    ELSE remIleavedBits_loop(BITS, remIleavedBits_round(BITS, w, k), k + 1)

\* variant: the input is not masked with MASKS[0] before the loop
remIleavedBits_const_unmasked(BITS, input) ==
    IF BITS = 0 THEN input
    ELSE remIleavedBits_loop(BITS, input, 0)

remIleavedBits_const(BITS, input) ==
    IF BITS = 0 THEN input
    ELSE remIleavedBits_loop(BITS, input \cap MASKS[BITS][0], 0)

(***************************************************************************)
(* Number interleaving                                                     *)
(***************************************************************************)
\* the MASKS[] literals of ileave2
ileave2_MASKS ==
    [k \in 0..4 |->
        CASE k = 0 -> FromHex(<<5,5,5,5, 5,5,5,5, 5,5,5,5, 5,5,5,5>>)
          [] k = 1 -> FromHex(<<3,3,3,3, 3,3,3,3, 3,3,3,3, 3,3,3,3>>)
          [] k = 2 -> FromHex(<<0,15,0,15, 0,15,0,15, 0,15,0,15, 0,15,0,15>>)
          [] k = 3 -> FromHex(<<0,0,15,15, 0,0,15,15, 0,0,15,15, 0,0,15,15>>)
          [] k = 4 -> FromHex(<<0,0,0,0, 15,15,15,15, 0,0,0,0, 15,15,15,15>>)]

\* the inner loop of ileave2, from index k down to 0
RECURSIVE ileave2_inner(_, _)
ileave2_inner(w, k) ==
    IF k = -1 THEN w
    ELSE ileave2_inner((w \cup Shl(w, 2^k)) \cap ileave2_MASKS[k], k - 1)

\* variant: the spread nums[k] is shifted by k instead of 1 - k
ileave2_swapped(hi, lo) ==
    LET nums == <<ToU32(hi), ToU32(lo)>>
    IN  UNION {Shl(ileave2_inner(nums[k + 1], 4), k) : k \in 0..1}

\* nums[] = {&hi, &lo}; outer iteration k ORs in the spread nums[k] << (1 - k)
ileave2(hi, lo) ==
    LET nums == <<ToU32(hi), ToU32(lo)>>
    IN  UNION {Shl(ileave2_inner(nums[k + 1], 4), 1 - k) : k \in 0..1}

ileave3_naive(x, y, z) ==
    Shl(ileaveZeros_naive(x, 2), 2) \cup Shl(ileaveZeros_naive(y, 2), 1)
        \cup ileaveZeros_naive(z, 2)

\* variant: the shifts of x and y are exchanged
ileave3_swapped(x, y, z) ==
    Shl(ileaveZeros_const(2, x), 1) \cup Shl(ileaveZeros_const(2, y), 2)
        \cup ileaveZeros_const(2, z)

ileave3(x, y, z) ==
    Shl(ileaveZeros_const(2, x), 2) \cup Shl(ileaveZeros_const(2, y), 1)
        \cup ileaveZeros_const(2, z)

\* variant: out[0] and out[2] are exchanged
dileave3_swapped(w) ==
    << ToU32(remIleavedBits_const(2, Shr(w, 0))),
       ToU32(remIleavedBits_const(2, Shr(w, 1))),
       ToU32(remIleavedBits_const(2, Shr(w, 2))) >>

\* the three words written to out[0], out[1], out[2]
dileave3(w) ==
    << ToU32(remIleavedBits_const(2, Shr(w, 2))),
       ToU32(remIleavedBits_const(2, Shr(w, 1))),
       ToU32(remIleavedBits_const(2, Shr(w, 0))) >>

(***************************************************************************)
(* Byte interleaving and de-interleaving                                   *)
(***************************************************************************)
\* the literal 0xff
ByteMask == FromHex(<<15, 15>>)

\* the loop of ileaveBytes_const<COUNT>, from iteration k on
RECURSIVE ileaveBytes_const_loop(_, _, _, _)
ileaveBytes_const_loop(COUNT, bytes, k, result) ==
    IF k >= COUNT THEN result
    ELSE ileaveBytes_const_loop(COUNT, Shr(bytes, 8), k + 1,
            result \cup Shl(ileaveZeros_const(COUNT - 1, bytes \cap ByteMask), k))

\* variant: the lanes are spread with COUNT zero bits instead of COUNT - 1
RECURSIVE ileaveBytes_const_wide_loop(_, _, _, _)
ileaveBytes_const_wide_loop(COUNT, bytes, k, result) ==
    IF k >= COUNT THEN result
    ELSE ileaveBytes_const_wide_loop(COUNT, Shr(bytes, 8), k + 1,
            result \cup Shl(ileaveZeros_const(COUNT, bytes \cap ByteMask), k))

ileaveBytes_const_wide(COUNT, bytes) ==
    IF COUNT # 0 THEN ileaveBytes_const_wide_loop(COUNT, bytes, 0, {}) ELSE {}

ileaveBytes_const(COUNT, bytes) ==
    IF COUNT # 0 THEN ileaveBytes_const_loop(COUNT, bytes, 0, {}) ELSE {}

\* the loop of dileaveBytes_const<COUNT>, from iteration k on
RECURSIVE dileaveBytes_const_loop(_, _, _, _)
dileaveBytes_const_loop(COUNT, ileaved, k, result) ==
    IF k >= COUNT THEN result
    ELSE dileaveBytes_const_loop(COUNT, ileaved, k + 1,
            Shl(result \cup remIleavedBits_const(COUNT - 1, Shr(ileaved, k)), 8))

dileaveBytes_const(COUNT, ileaved) ==
    IF COUNT # 0 THEN dileaveBytes_const_loop(COUNT, ileaved, 0, {}) ELSE {}

\* VXIO_DEBUG_ASSERT_LE(a, b): in a debug build the call aborts unless a <= b
VXIO_DEBUG_ASSERT_LE_fails(a, b) == build = "debug" /\ ~(a <= b)

\* VXIO_ASSUME(cond): undefined behaviour when cond is false
VXIO_ASSUME_violated(cond) == ~cond

\* what a call whose behaviour is undefined may leave behind: no value at all,
\* or any value
UndefinedOutcomes == {<<>>} \cup {<<w>> : w \in Corpus(U64)}

\* variant: a count above 8 is clamped to 8 instead of being rejected
ileaveBytes_jmp_clamped(bytes, count) ==
    {<<"returned", <<ileaveBytes_const(Min(count, 8), bytes)>> >>}

\* the outcome <<status, ret>> of detail::ileaveBytes_jmp(bytes, count)
ileaveBytes_jmp(bytes, count) ==
    IF VXIO_DEBUG_ASSERT_LE_fails(count, 8) THEN {<<"assert_failed", <<>> >>}
    ELSE IF VXIO_ASSUME_violated(count <= 8)
         THEN {<<"undefined", r>> : r \in UndefinedOutcomes}
         ELSE {<<"returned", <<ileaveBytes_const(count, bytes)>> >>}

ileaveBytes(bytes, count) == ileaveBytes_jmp(bytes, count)

\* the outcome <<status, ret>> of detail::dileaveBytes_jmp(bytes, count)
dileaveBytes_jmp(bytes, count) ==
    IF VXIO_DEBUG_ASSERT_LE_fails(count, 8) THEN {<<"assert_failed", <<>> >>}
    ELSE IF VXIO_ASSUME_violated(count <= 8)
         THEN {<<"undefined", r>> : r \in UndefinedOutcomes}
         ELSE {<<"returned", <<dileaveBytes_const(count, bytes)>> >>}

dileave_bytes(bytes, count) == dileaveBytes_jmp(bytes, count)

(***************************************************************************)
(* The caller                                                              *)
(***************************************************************************)
\* lane counts the caller tries: 0..8 are valid, the ones above are not
MaxCount == 10
Counts == 0..MaxCount

\* argument pairs and triples: one argument ranges over the inputs while the
\* others range over the corpus
Coords == Corpus(U32) \cup Corpus(0..20)
Pairs ==
    (CoordInputs \X Coords) \cup (Coords \X CoordInputs)
Triples ==
    (CoordInputs \X Coords \X Coords) \cup (Coords \X CoordInputs \X Coords)
        \cup (Coords \X Coords \X CoordInputs)

\* inputs of the stepwise runs of the doubling recurrence
LoopInputs32 == Corpus(U32) \cup Sparse({0, 31}, MaxSetBits)
LoopInputs64 == Corpus(U64) \cup Sparse({0, 63}, MaxSetBits)

Idle ==
    /\ fn = "idle"
    /\ param = 0
    /\ args = <<>>
    /\ ret = <<>>
    /\ origin = <<>>
    /\ status = "idle"
    /\ n = {}
    /\ i = 0
    /\ rounds = 0
    /\ maskIdx = -1

Init == Idle /\ build = "debug"

InitAnyBuild == Idle /\ build \in {"debug", "release"}

NoLoop == UNCHANGED <<n, i, rounds, maskIdx>>

Finished(f, p, a, o, st, r) ==
    /\ fn' = f
    /\ param' = p
    /\ args' = a
    /\ origin' = o
    /\ status' = st
    /\ ret' = r
    /\ NoLoop
    /\ UNCHANGED build

Returned(f, p, a, r, o) == Finished(f, p, a, o, "returned", r)

\* the caller drops the result and is ready for the next call
Discard ==
    /\ status \in {"returned", "assert_failed", "undefined"}
    /\ fn' = "idle"
    /\ param' = 0
    /\ args' = <<>>
    /\ ret' = <<>>
    /\ origin' = <<>>
    /\ status' = "idle"
    /\ n' = {}
    /\ i' = 0
    /\ rounds' = 0
    /\ maskIdx' = -1
    /\ UNCHANGED build

---------------------------------------------------------------------------
Call_ileaveZeros_const ==
    /\ status = "idle"
    /\ \E B \in Strides, x \in Inputs32 :
        Returned("ileaveZeros_const", B, <<x>>, <<ileaveZeros_const(B, x)>>, <<>>)

Call_remIleavedBits_const ==
    /\ status = "idle"
    /\ \E B \in Strides, w \in Inputs64 :
        Returned("remIleavedBits_const", B, <<w>>, <<remIleavedBits_const(B, w)>>, <<>>)

\* remIleavedBits_const<BITS>(ileaveZeros_const<BITS>(x))
Feed_remIleavedBits_const ==
    /\ status = "returned"
    /\ fn = "ileaveZeros_const"
    /\ Returned("remIleavedBits_const", param, ret,
                <<remIleavedBits_const(param, ret[1])>>, args)

NextBits ==
    \/ Call_ileaveZeros_const
    \/ Call_remIleavedBits_const
    \/ Feed_remIleavedBits_const
    \/ Discard

SpecBits == Init /\ [][NextBits]_vars

---------------------------------------------------------------------------
Call_ileave2 ==
    /\ status = "idle"
    /\ \E a \in Pairs :
        Returned("ileave2", 1, a, <<ileave2(a[1], a[2])>>, <<>>)

Call_ileave3 ==
    /\ status = "idle"
    /\ \E a \in Triples :
        Returned("ileave3", 2, a, <<ileave3(a[1], a[2], a[3])>>, <<>>)

Call_dileave3 ==
    /\ status = "idle"
    /\ \E w \in Inputs64 :
        Returned("dileave3", 2, <<w>>, dileave3(w), <<>>)

\* dileave3(ileave3(x, y, z), out)
Feed_dileave3 ==
    /\ status = "returned"
    /\ fn = "ileave3"
    /\ Returned("dileave3", 2, ret, dileave3(ret[1]), args)

NextMorton ==
    \/ Call_ileave2
    \/ Call_ileave3
    \/ Call_dileave3
    \/ Feed_dileave3
    \/ Discard

SpecMorton == Init /\ [][NextMorton]_vars

---------------------------------------------------------------------------
Call_ileaveBytes ==
    /\ status = "idle"
    /\ \E count \in Counts, bytes \in Inputs64 :
        \E o \in ileaveBytes(bytes, count) :
            Finished("ileaveBytes", count, <<bytes>>, <<>>, o[1], o[2])

Call_dileave_bytes ==
    /\ status = "idle"
    /\ \E count \in Counts, bytes \in Inputs64 :
        \E o \in dileave_bytes(bytes, count) :
            Finished("dileave_bytes", count, <<bytes>>, <<>>, o[1], o[2])

\* dileave_bytes(ileaveBytes(bytes, count), count)
Feed_dileave_bytes ==
    /\ status = "returned"
    /\ fn = "ileaveBytes"
    /\ \E o \in dileave_bytes(ret[1], param) :
            Finished("dileave_bytes", param, ret, args, o[1], o[2])

NextBytes ==
    \/ Call_ileaveBytes
    \/ Call_dileave_bytes
    \/ Feed_dileave_bytes
    \/ Discard

SpecBytes == InitAnyBuild /\ [][NextBytes]_vars

---------------------------------------------------------------------------
\* The loops of ileaveZeros_const<BITS> and remIleavedBits_const<BITS>, one
\* round per step.
Running(f, p, a, w, k, r, m) ==
    /\ fn' = f
    /\ param' = p
    /\ args' = a
    /\ ret' = <<>>
    /\ origin' = <<>>
    /\ status' = "running"
    /\ n' = w
    /\ i' = k
    /\ rounds' = r
    /\ maskIdx' = m
    /\ UNCHANGED build

Exit ==
    /\ fn' = fn
    /\ param' = param
    /\ args' = args
    /\ ret' = <<n>>
    /\ origin' = <<>>
    /\ status' = "returned"
    /\ NoLoop
    /\ UNCHANGED build

\* uint64_t n = input; int i = start
Enter_ileaveZeros_const ==
    /\ status = "idle"
    /\ \E B \in Strides \ {0}, x \in LoopInputs32 :
        Running("ileaveZeros_const", B, <<x>>, ToU32(x), ileaveZeros_start(B), 0, -1)

\* i != -1: the loop body, then --i
Round_ileaveZeros_const ==
    /\ status = "running"
    /\ fn = "ileaveZeros_const"
    /\ i # -1
    /\ Running(fn, param, args, ileaveZeros_round(param, n, i), i - 1, rounds + 1, i)

\* i == -1: return n
Exit_ileaveZeros_const ==
    /\ status = "running"
    /\ fn = "ileaveZeros_const"
    /\ i = -1
    /\ Exit

\* input &= MASKS[0]; size_t i = 0
Enter_remIleavedBits_const ==
    /\ status = "idle"
    /\ \E B \in Strides \ {0}, w \in LoopInputs64 :
        Running("remIleavedBits_const", B, <<w>>, w \cap MASKS[B][0], 0, 0, 0)

\* i < iterations: the loop body, then ++i
Round_remIleavedBits_const ==
    /\ status = "running"
    /\ fn = "remIleavedBits_const"
    /\ i < remIleavedBits_iterations(param)
    /\ Running(fn, param, args, remIleavedBits_round(param, n, i), i + 1, rounds + 1, i + 1)

\* i >= iterations: return input
Exit_remIleavedBits_const ==
    /\ status = "running"
    /\ fn = "remIleavedBits_const"
    /\ ~(i < remIleavedBits_iterations(param))
    /\ Exit

LoopStep ==
    \/ Round_ileaveZeros_const
    \/ Exit_ileaveZeros_const
    \/ Round_remIleavedBits_const
    \/ Exit_remIleavedBits_const

NextLoop ==
    \/ Enter_ileaveZeros_const
    \/ Enter_remIleavedBits_const
    \/ Round_ileaveZeros_const
    \/ Exit_ileaveZeros_const
    \/ Round_remIleavedBits_const
    \/ Exit_remIleavedBits_const
    \/ Discard

\* a call that has started keeps executing: the functions are straight-line
\* sequential code that never blocks or waits
SpecLoop == Init /\ [][NextLoop]_vars /\ WF_vars(LoopStep)

(***************************************************************************)
(* Properties                                                              *)
(***************************************************************************)
\* the state holds the result of the inverse applied to a forward result
Chained(inverse) == fn = inverse /\ status = "returned" /\ origin # <<>>

\* the number of input bits a stride keeps: min(32, ceil(64 / (BITS + 1)))
Capacity(BITS) == IF BITS = 0 THEN 32 ELSE Min(32, (64 + BITS) \div (BITS + 1))

\* C1: for every count in 0..8 and every bytes whose lanes at index >= count
\* are zero, dileave_bytes(ileaveBytes(bytes, count), count) == bytes.
C1_ByteRoundTrip ==
    (Chained("dileave_bytes") /\ param <= 8 /\ origin[1] \subseteq 0..(8 * param - 1))
        => ret[1] = origin[1]

\* C2 as stated: for every 32-bit x and BITS in {1, 2, 4, 8, 16},
\* remIleavedBits_const<BITS>(ileaveZeros_const<BITS>(x)) == x.
C2_BitRoundTrip_Every32BitInput ==
    (Chained("remIleavedBits_const") /\ param \in {1, 2, 4, 8, 16})
        => ret[1] = origin[1]

\* C2 as amended: for BITS in {1, 2, 4, 8, 16} the round trip returns the low
\* min(32, ceil(64 / (BITS + 1))) bits of x, hence x itself whenever x fits in
\* that many bits (32, 22, 13, 8 and 4 bits respectively).
C2_BitRoundTrip_WithinCapacity ==
    (Chained("remIleavedBits_const") /\ param \in {1, 2, 4, 8, 16})
        => /\ ret[1] = origin[1] \cap (0..(Capacity(param) - 1))
           /\ (origin[1] \subseteq 0..(Capacity(param) - 1) => ret[1] = origin[1])

C2_Witness ==
    /\ Chained("remIleavedBits_const")
    /\ param = 2
    /\ origin[1] = {21}
    /\ args[1] = {63}
    /\ ret[1] = {21}

\* C3: for all x, y, z in [0, 2^21), dileave3(ileave3(x, y, z)) writes
\* out[0] == x, out[1] == y and out[2] == z.
C3_MortonRoundTrip ==
    (Chained("dileave3") /\ \A c \in 1..3 : origin[c] \subseteq 0..20)
        => ret = origin

C3_Witness ==
    /\ Chained("dileave3")
    /\ origin = <<0..20, {b \in 0..20 : b % 2 = 1}, {20}>>
    /\ ret = origin

\* C4: for every stride BITS in 0..32 and every 32-bit x, ileaveZeros_const<BITS>(x)
\* equals ileaveZeros_naive(x, BITS): output bit k * (BITS + 1) is input bit k
\* for every k with k * (BITS + 1) < 64, and every other output bit is 0.
C4_InsertMatchesNaive ==
    (fn = "ileaveZeros_const" /\ status = "returned")
        => /\ ret[1] = ileaveZeros_naive(args[1], param)
           /\ ret[1] = {k * (param + 1) : k \in {b \in args[1] : b * (param + 1) < 64}}

C4_Witness ==
    /\ fn = "ileaveZeros_const"
    /\ status = "returned"
    /\ param = 7
    /\ args[1] = U32
    /\ ret[1] = {0, 8, 16, 24, 32, 40, 48, 56}

\* C5: for every count in 1..8 and every bytes, output bit j * count + l of
\* ileaveBytes(bytes, count) is bit j of byte lane l for l < count and j < 8,
\* every other output bit is 0, and for count == 0 the result is 0.
C5_ByteLayout ==
    (fn = "ileaveBytes" /\ status = "returned")
        => ret[1] = {p[2] * param + p[1] :
                        p \in {q \in (0..(param - 1)) \X (0..7) : 8 * q[1] + q[2] \in args[1]}}

C5_Witness ==
    /\ fn = "ileaveBytes"
    /\ status = "returned"
    /\ param = 3
    /\ args[1] = U64
    /\ ret[1] = 0..23

\* the Morton word that takes bit k of x, y, z for k below xyBits (x, y) and
\* below zBits (z)
MortonLayout(a, xyBits, zBits) ==
    {3 * k + 2 : k \in a[1] \cap (0..(xyBits - 1))}
        \cup {3 * k + 1 : k \in a[2] \cap (0..(xyBits - 1))}
        \cup {3 * k : k \in a[3] \cap (0..(zBits - 1))}

\* C6 as stated: bits 3k+2, 3k+1, 3k of ileave3(x, y, z) are bit k of x, y, z
\* for k in 0..20, every other bit is 0, and
\* ileave3(x, y, z) == ileave3(x mod 2^21, y mod 2^21, z mod 2^21).
C6_MortonLayout_21Bits ==
    (fn = "ileave3" /\ status = "returned")
        => /\ ret[1] = MortonLayout(args, 21, 21)
           /\ ret[1] = ileave3(args[1] \cap (0..20), args[2] \cap (0..20), args[3] \cap (0..20))

\* C6 as amended: bits 3k+2 and 3k+1 are bit k of x and y for k in 0..20, bit 3k
\* is bit k of z for k in 0..21 (bit 63 is bit 21 of z), every other bit is 0,
\* and ileave3(x, y, z) == ileave3(x mod 2^21, y mod 2^21, z mod 2^22); the
\* result equals ileave3_naive(x, y, z).
C6_MortonLayout_ZKeeps22Bits ==
    (fn = "ileave3" /\ status = "returned")
        => /\ ret[1] = MortonLayout(args, 21, 22)
           /\ ret[1] = ileave3(args[1] \cap (0..20), args[2] \cap (0..20), args[3] \cap (0..21))
           /\ ret[1] = ileave3_naive(args[1], args[2], args[3])

C6_Witness ==
    /\ fn = "ileave3"
    /\ status = "returned"
    /\ args = <<U32, U32, {21}>>
    /\ 63 \in ret[1]
    /\ Cardinality(ret[1]) = 43

\* C7: output bit 2k of ileave2(hi, lo) is bit k of lo and output bit 2k+1 is
\* bit k of hi for every k in 0..31; ileave2(hi, lo) equals
\* (ileaveZeros_const<1>(hi) << 1) | ileaveZeros_const<1>(lo); and
\* ileave2(0b111, 0b000) == 0b101010.
C7_Ileave2Layout ==
    (fn = "ileave2" /\ status = "returned")
        => /\ ret[1] = {2 * k : k \in args[2]} \cup {2 * k + 1 : k \in args[1]}
           /\ ret[1] = Shl(ileaveZeros_const(1, args[1]), 1) \cup ileaveZeros_const(1, args[2])
           /\ (args = <<{0, 1, 2}, {}>> => ret[1] = {1, 3, 5})

C7_Witness ==
    /\ fn = "ileave2"
    /\ status = "returned"
    /\ args = <<{0, 1, 2}, {}>>
    /\ ret[1] = {1, 3, 5}

\* C8: in a debug build a call of ileaveBytes or dileave_bytes with count > 8
\* ends in an assertion failure and returns no value (the count is not clamped
\* or truncated), and a call with count in 0..8 never trips an assertion.
C8_PreconditionEnforced ==
    (build = "debug" /\ fn \in {"ileaveBytes", "dileave_bytes"} /\ status # "idle")
        => /\ (param > 8 => status = "assert_failed" /\ ret = <<>>)
           /\ (param <= 8 => status = "returned" /\ Len(ret) = 1)

C8_Witness ==
    /\ build = "debug"
    /\ fn = "ileaveBytes"
    /\ param = 9
    /\ status = "assert_failed"
    /\ ret = <<>>

\* C9: for every stride BITS in 0..32 and every 64-bit input,
\* remIleavedBits_const<BITS>(input) equals remIleavedBits_naive(input, BITS):
\* exactly the input bits at multiples of BITS + 1, packed from output bit 0.
C9_RemoveMatchesNaive ==
    (fn = "remIleavedBits_const" /\ status = "returned")
        => /\ ret[1] = remIleavedBits_naive(args[1], param)
           /\ ret[1] = {b \div (param + 1) : b \in {c \in args[1] : c % (param + 1) = 0}}

C9_Witness ==
    /\ fn = "remIleavedBits_const"
    /\ status = "returned"
    /\ origin = <<>>
    /\ param = 2
    /\ args[1] = U64
    /\ ret[1] = 0..21

\* the loop state stays inside the bounds C10 names
C10_LoopBounds ==
    /\ (fn = "ileaveZeros_const" /\ status \in {"running", "returned"})
        => /\ rounds <= 6
           /\ maskIdx \in -1..4
           /\ i \in -1..4
           /\ rounds + i = 4 - log2floor(param \div 2)
           /\ (status = "returned" => i = -1)
    /\ (fn = "remIleavedBits_const" /\ status \in {"running", "returned"})
        => /\ rounds <= 6
           /\ maskIdx \in 0..5
           /\ rounds = i
           /\ i <= 5 - log2floor(param \div 2)
           /\ (status = "returned" => i = 5 - log2floor(param \div 2))

\* C10: for every stride BITS in 1..32 and every input the loops of
\* ileaveZeros_const<BITS> (index from 4 - floor(log2(BITS >> 1)) down to 0) and
\* remIleavedBits_const<BITS> (5 - floor(log2(BITS >> 1)) iterations) terminate
\* after at most 6 rounds, and every mask index stays inside the table
\* (0..4 for insertion, 0..5 for removal).
C10_BoundedTermination ==
    /\ [] C10_LoopBounds
    /\ (status = "running") ~> (status = "returned")

C10_Witness ==
    /\ fn = "remIleavedBits_const"
    /\ status = "returned"
    /\ param = 1
    /\ rounds = 5
    /\ maskIdx = 5

====
